---- MODULE Spec2Model ----
(***************************************************************************)
(* Verification model of vite-plugin-formatjs.                             *)
(*                                                                         *)
(* Part I  : the plugin instance of packages/plugin/src/plugin.ts (timer,  *)
(*           inProgress, pendingExtract, the hooks and the async runs      *)
(*           they start), with a discrete clock for the debounce timer.    *)
(* Part II : the cache-guarded extraction of src/core/types.ts together    *)
(*           with the file-name cache of src/utils/cache.ts.               *)
(* Part III-VI : concurrent writeCache calls, the merge into outFile, the  *)
(*           compilation and the path classification of core/compile.ts.   *)
(* Part VII-IX : the configuration of core/config.ts, several plugin       *)
(*           instances in one process, and the plugin with hot reload.     *)
(* Part X-XII : the include and ignore patterns of core/extract.ts,        *)
(*           extractMessage calls in flight together, and the plugin's     *)
(*           own writes reported back by the watcher.                      *)
(***************************************************************************)
EXTENDS Integers, Sequences, FiniteSets, Bags, TLC

\* ------------------------------------------------------------------ bounds
NumPaths == 2           \* distinct source files the host reports
MaxTime == 2            \* the clock runs from 0 to MaxTime
MaxDebounce == 1        \* config.debounceTime ranges over 0..MaxDebounce
MaxInFlight == 2        \* the host starts no new work above this load
NumContents == 2        \* distinct serialized message maps
NumOutFiles == 1        \* distinct outFile paths sharing the cache directory
MaxClock == 2           \* Date.now() ranges over 1..MaxClock
MaxFaults == 1          \* failing library and file-system calls per behaviour
MaxWriters == 2         \* writeCache calls in flight at once
NumSrc == 2             \* source files matching config.extract.include
NumKeys == 2            \* message ids
NumValues == 2          \* texts a message id may carry
NumLocales == 3         \* translation files inputDir may hold
MaxElapsed == 1         \* milliseconds a successful compile may take
MaxDepth == 1           \* directory names in a path
NumInstances == 2       \* plugin instances created in one process

\* ------------------------------------------------------- program constants
HashHexLen == 64        \* hex digits of a sha256 digest
KeyHexLen == 8          \* hex digits of the path hash kept in a cache name
CachePrefixLen == 8     \* hex digits of the content hash kept in a cache name
DEFAULT_DEBOUNCE_TIME == 300

\* ------------------------------------------------------------ file universe
\* The host reports paths; the plugin classifies each with isMessageFile,
\* isFileInInclude and isCompiledMessageFile.  A file is represented by the
\* class these predicates put it in, and a name.
FileKinds == {"source", "message", "compiled", "other"}
Files == {f \in [kind : FileKinds, n : 1..NumPaths] : f.kind = "source" \/ f.n = 1}
NoFile == [kind |-> "other", n |-> 0]

isMessageFile(f) == f.kind = "message"
isFileInInclude(f) == f.kind = "source"
isCompiledMessageFile(f) == f.kind = "compiled"

VARIABLES
  \* configuration, fixed at construction (resolveConfig + validateConfig)
  debounceTime, autoExtract, extractOnBuild,
  \* closure state of formatjs()
  timer,            \* handle last returned by setTimeout, 0 for null
  inProgress,
  pendingExtract,
  \* host event loop
  hostTimers,       \* timers armed and neither fired nor cleared: [id, deadline]
  now,
  tasks,            \* bag of async activations suspended at an await
  \* observation
  escaped,          \* hooks/callbacks whose promise rejected or that threw
  sent,             \* compiled files pushed to the client by ws.send
  log               \* history used by the properties

coordVars == <<debounceTime, autoExtract, extractOnBuild, timer, inProgress,
               pendingExtract, hostTimers, now, tasks, escaped, sent, log>>

VARIABLES
  \* extraction with content cache (src/core/types.ts, src/utils/cache.ts)
  disk,             \* content of outFile, 0 when the file does not exist
  cacheDir,         \* records encoded by the cache file names
  clock,            \* Date.now()
  source,           \* what extract() currently yields for the include set
  xlog              \* history of extractMessages calls

cacheVars == <<disk, cacheDir, clock, source, xlog>>

VARIABLES
  \* writeCache calls in flight (src/utils/cache.ts)
  writers           \* bag of activations suspended at an await

writeVars == <<writers>>

VARIABLES
  \* extraction into the canonical file (core/extract.ts)
  canon,            \* outFile: whether it exists and the message map it holds
  srcMsgs,          \* the message each source file defines now, 0 for none
  ignore,           \* config.extract.ignore, as the set of files it matches
  mlog              \* history of the extraction calls

mergeVars == <<canon, srcMsgs, ignore, mlog>>

VARIABLES
  \* compilation (core/compile.ts)
  messageFiles,     \* inputDir: the state of each translation file
  compiledFiles,    \* outputDir: the artifacts written
  clog              \* history of the compile calls

compileVars == <<messageFiles, compiledFiles, clog>>

VARIABLES
  \* path classification (core/compile.ts)
  options,          \* extract.outFile and compile.inputDir
  probe             \* the last path classified, with the answer

pathVars == <<options, probe>>

VARIABLES
  \* configuration (core/config.ts)
  DEFAULT_CONFIG,   \* the module-level object, with the objects it refers to
  NODE_ENV,         \* process.env.NODE_ENV
  plugins,          \* the formatjs() calls made: outcome and config reference
  rlog              \* the last resolveConfig call

configVars == <<DEFAULT_CONFIG, NODE_ENV, plugins, rlog>>

VARIABLES
  \* several plugin instances in one process (plugin.ts)
  cells,            \* the closure variables each formatjs() call allocated
  armed,            \* the closures whose timer is armed in the host
  runs              \* bag of debouncedExtract activations: closure and files

instVars == <<cells, armed, runs>>

VARIABLES
  \* the plugin with hot reload (src/plugin.ts)
  serve,            \* config.hotReload and the closure variables of formatjs()
  slog              \* the last debounced extraction and what was sent after it

serveVars == <<serve, slog>>

VARIABLES
  \* source classification (core/extract.ts)
  extractOptions,   \* extract.include and extract.ignore
  asked             \* the last path isFileInInclude was asked about

globVars == <<extractOptions, asked>>

VARIABLES
  \* extractMessage calls in flight together (core/extract.ts)
  extractions       \* each call: the await it is at and what it holds

overlapVars == <<extractions>>

VARIABLES
  \* the plugin's own writes reported back by the watcher (plugin.ts)
  echo              \* closure variables, runs, writes not yet reported

echoVars == <<echo>>

lateVars == <<globVars, overlapVars, echoVars>>

moreVars == <<configVars, instVars, serveVars, lateVars>>

stageVars == <<mergeVars, compileVars, pathVars, moreVars>>

vars == <<coordVars, cacheVars, writeVars, stageVars>>

\* What the hooks of the plugin instance leave alone, and what the cached
\* extraction leaves alone.
otherThanCoord == <<cacheVars, writeVars, stageVars>>
otherThanCache == <<coordVars, writeVars, stageVars>>
otherThanMerge ==
  <<coordVars, cacheVars, writeVars, compileVars, pathVars, moreVars>>
otherThanCompile ==
  <<coordVars, cacheVars, writeVars, mergeVars, pathVars, moreVars>>
otherThanPath ==
  <<coordVars, cacheVars, writeVars, mergeVars, compileVars, moreVars>>
otherThanConfig ==
  <<coordVars, cacheVars, writeVars, mergeVars, compileVars, pathVars,
    instVars, serveVars, lateVars>>
otherThanInst ==
  <<coordVars, cacheVars, writeVars, mergeVars, compileVars, pathVars,
    configVars, serveVars, lateVars>>
otherThanServe ==
  <<coordVars, cacheVars, writeVars, mergeVars, compileVars, pathVars,
    configVars, instVars, lateVars>>
otherThanLate ==
  <<coordVars, cacheVars, writeVars, mergeVars, compileVars, pathVars,
    configVars, instVars, serveVars>>

\* ======================================================================
\* Part I : plugin instance
\* ======================================================================

\* The mutable closure variables, as one value the helpers transform.
Closure == [timer |-> timer, inProgress |-> inProgress,
            pendingExtract |-> pendingExtract, hostTimers |-> hostTimers]

SetClosure(c) ==
  /\ timer' = c.timer
  /\ inProgress' = c.inProgress
  /\ pendingExtract' = c.pendingExtract
  /\ hostTimers' = c.hostTimers

\* clearTimeout(h): a no-op for a timer that already fired.
clearTimeout(queue, h) == {t \in queue : t.id # h}

\* Variant: the delay argument is ignored.
setTimeout_NoDelay(queue, id, delay) == queue \cup {[id |-> id, deadline |-> now]}

\* setTimeout(cb, delay): arms a timer that fires no earlier than now + delay.
setTimeout(queue, id, delay) == queue \cup {[id |-> id, deadline |-> now + delay]}

\* Variant: clear() forgets the handle without clearTimeout.
clear_KeepsTimer(c) ==
  [c EXCEPT !.timer = 0, !.inProgress = FALSE, !.pendingExtract = {}]

\* function clear(), plugin.ts:31-38
clear(c) ==
  [c EXCEPT !.hostTimers = IF c.timer # 0 THEN clearTimeout(@, c.timer) ELSE @,
            !.timer = 0,
            !.inProgress = FALSE,
            !.pendingExtract = {}]

\* Variant: the finally-block forgets the flag.
debouncedExtractFinally_KeepsFlag(c) ==
  [c EXCEPT !.pendingExtract = {}]

\* finally-block of debouncedExtract, plugin.ts:55-58
debouncedExtractFinally(c) ==
  [c EXCEPT !.inProgress = FALSE, !.pendingExtract = {}]

\* Variant: no catch-block, the rejection reaches `void debouncedExtract()`.
debouncedExtractCatch_Missing(esc) == esc \cup {"debouncedExtract"}

\* catch-block of debouncedExtract, plugin.ts:52-55: logs, rethrows nothing
debouncedExtractCatch(esc) == esc

\* catch-block of compile(), plugin.ts:69-72
compileCatch(esc) == esc

\* catch-block of buildStart, plugin.ts:101-104
buildStartCatch(esc) == esc

\* catch-block around JSON.parse(await read()) and ws.send, plugin.ts:149-152
hotUpdateCatch(esc) == esc

InitLog ==
  [hasNotified |-> FALSE, lastNotifyAt |-> 0, burst |-> {}, burstRuns |-> 0,
   owed |-> {}, cancelled |-> FALSE, lastOutcome |-> "none",
   skipped |-> FALSE]

InitCache ==
  /\ disk = [o \in 1..NumOutFiles |-> 0]
  /\ cacheDir = [exists |-> FALSE, files |-> {}]
  /\ clock = 1
  /\ source = 1
  /\ xlog = [settled |-> 0, repeat |-> FALSE,
             isChanged |-> FALSE, wrote |-> FALSE, threw |-> FALSE,
             faults |-> 0, ran |-> 0, stale |-> FALSE, cacheFault |-> FALSE,
             record |-> "none"]

\* No writeCache call is in flight.
InitWriters ==
  /\ writers = EmptyBag

NoMessages == [k \in 1..NumKeys |-> 0]
InitMergeLog == [kind |-> "none", files |-> {}, won |-> FALSE, stale |-> FALSE]

\* Nothing was extracted yet: outFile does not exist.
InitMerge ==
  /\ canon = [exists |-> FALSE, messages |-> NoMessages]
  /\ srcMsgs = NoMessages
  /\ ignore = {}
  /\ mlog = InitMergeLog

InitCompileLog ==
  [op |-> "none", threw |-> FALSE, returned |-> 0, failed |-> {}, wrote |-> {}]

\* inputDir and outputDir are empty.
InitCompile ==
  /\ messageFiles = [l \in 1..NumLocales |-> "absent"]
  /\ compiledFiles = {}
  /\ clog = InitCompileLog

NoPath == [abs |-> FALSE, segs |-> << >>]
NoProbe == [filePath |-> NoPath, isMessageFile |-> FALSE, asked |-> FALSE]

InitPath ==
  /\ options = [outFile |-> NoPath, inputDir |-> NoPath]
  /\ probe = NoProbe

\* DEFAULT_CONFIG as config.ts:41-48 writes it; include is abridged.
Defaults ==
  [extract |-> [include |-> <<"src/**/*">>, outFile |-> "src/i18n/lang/en.json"],
   compile |-> [inputDir |-> "src/i18n/lang",
                outputDir |-> "src/i18n/compiled-lang"],
   debounceTime |-> DEFAULT_DEBOUNCE_TIME,
   extractOnBuild |-> FALSE]

NoCall == [made |-> FALSE, noOptions |-> FALSE, returned |-> "none"]

\* The module is loaded and formatjs() was not called yet.
InitConfig ==
  /\ DEFAULT_CONFIG = Defaults
  /\ NODE_ENV = "production"
  /\ plugins = [i \in 1..NumInstances |->
                  [state |-> "none", config |-> "none", touched |-> FALSE]]
  /\ rlog = NoCall

\* The closure variables as formatjs() initializes them, plugin.ts:24-26.
NewCell == [timer |-> FALSE, inProgress |-> FALSE, pendingExtract |-> {}]

InitInst ==
  /\ cells = [c \in 1..NumInstances |-> NewCell]
  /\ armed = {}
  /\ runs = EmptyBag

\* formatjs() of src/plugin.ts has returned, plugin.ts:13-20.
NewServe(hotReload) ==
  [hotReload |-> hotReload, debounceTimer |-> "null",
   extractionInProgress |-> FALSE, pendingFiles |-> {}, running |-> FALSE]

NoRun == [outcome |-> "none", isChanged |-> FALSE, reloaded |-> FALSE]

InitServe ==
  /\ serve = NewServe(TRUE)
  /\ slog = NoRun

NoAnswer == [filePath |-> NoPath, isFileInInclude |-> FALSE, asked |-> FALSE]

\* No pattern is configured and no path was asked about.
InitGlob ==
  /\ extractOptions = [include |-> {}, ignore |-> {}]
  /\ asked = NoAnswer

\* No extractMessage call is in flight.
NoExtraction ==
  [stage |-> "idle", files |-> {}, messages |-> NoMessages,
   merged |-> NoMessages]

InitOverlap == extractions = [r \in 1..MaxInFlight |-> NoExtraction]

\* The closure variables as formatjs() initializes them; nothing was
\* written and the sources may still change.
NewEcho ==
  [timer |-> FALSE, inProgress |-> FALSE, pendingExtract |-> {},
   running |-> 0, written |-> {}, final |-> FALSE]

InitEcho == echo = NewEcho

InitLate == InitGlob /\ InitOverlap /\ InitEcho

InitMore ==
  /\ InitConfig
  /\ InitInst
  /\ InitServe
  /\ InitLate

InitStages ==
  /\ InitMerge
  /\ InitCompile
  /\ InitPath
  /\ InitMore

InitCoord ==
  /\ debounceTime = 0
  /\ autoExtract = TRUE
  /\ extractOnBuild = FALSE
  /\ timer = 0
  /\ inProgress = FALSE
  /\ pendingExtract = {}
  /\ hostTimers = {}
  /\ now = 0
  /\ tasks = EmptyBag
  /\ escaped = {}
  /\ sent = {}
  /\ log = InitLog

Init ==
  /\ debounceTime \in 0..MaxDebounce
  /\ autoExtract \in BOOLEAN
  /\ extractOnBuild \in BOOLEAN
  /\ timer = 0
  /\ inProgress = FALSE
  /\ pendingExtract = {}
  /\ hostTimers = {}
  /\ now = 0
  /\ tasks = EmptyBag
  /\ escaped = {}
  /\ sent = {}
  /\ log = InitLog
  /\ InitCache
  /\ InitWriters
  /\ InitStages

\* A timer handle is fresh; the smallest number no armed timer has is taken.
FreshId(used) == CHOOSE i \in 1..(Cardinality(used) + 1) : i \notin used

\* Variant: the activation does not carry the file it was started for.
NewTask_ForgetsFile(kind, file, files) ==
  [kind |-> kind, stage |-> IF kind = "compile" THEN "compile" ELSE "extract",
   file |-> NoFile, files |-> files]

\* An activation: which async function, where it is suspended, its arguments.
NewTask(kind, file, files) ==
  [kind |-> kind, stage |-> IF kind = "compile" THEN "compile" ELSE "extract",
   file |-> file, files |-> files]

Started(t) == tasks (+) SetToBag({t})
Finished(t) == tasks (-) SetToBag({t})
Running == BagToSet(tasks)
CountOf(bag, kinds, stages) ==
  BagCardinality([t \in {u \in BagToSet(bag) : u.kind \in kinds /\ u.stage \in stages}
                    |-> CopiesIn(t, bag)])
Stages == {"extract", "compile"}
Debounced == CountOf(tasks, {"debounced"}, Stages)

\* The host asks for new work only while fewer than MaxInFlight activations
\* are running or armed (a notify replaces the timer the closure holds).
Load(queue) == BagCardinality(tasks) + Cardinality(queue)
HostMayStart == Load(hostTimers) < MaxInFlight
HostMayNotify == Load(clearTimeout(hostTimers, timer)) < MaxInFlight

\* The clock advances; timers may fire late but never early.
Tick ==
  /\ now < MaxTime
  /\ now' = now + 1
  /\ UNCHANGED <<debounceTime, autoExtract, extractOnBuild, timer, inProgress,
                 pendingExtract, hostTimers, tasks, escaped, sent, log>>
  /\ UNCHANGED otherThanCoord

\* ------------------------------------------------------------- host hooks

\* Variant: the include test alone decides.
feedsCoordinator_IgnoresAutoExtract(f) == isFileInInclude(f)

\* The condition of plugin.ts:126-129
feedsCoordinator(f) == autoExtract /\ isFileInInclude(f)

\* handleHotUpdate(ctx), plugin.ts:108-157
handleHotUpdate(f) ==
  /\ IF isMessageFile(f) THEN
       \* await compile(file)
       /\ HostMayStart
       /\ tasks' = Started(NewTask("compile", f, {}))
       /\ UNCHANGED <<timer, inProgress, pendingExtract, hostTimers, escaped,
                      sent, log>>
     ELSE IF feedsCoordinator(f) THEN
       /\ HostMayNotify
       /\ LET c == clear(Closure)
              id == FreshId({h.id : h \in c.hostTimers})
          IN SetClosure([c EXCEPT
                 !.pendingExtract = @ \cup {f},
                 !.timer = id,
                 !.hostTimers = setTimeout(@, id, debounceTime)])
       /\ log' = [log EXCEPT
                 !.hasNotified = TRUE,
                 !.lastNotifyAt = now,
                 !.burst = IF log.hasNotified /\ now - log.lastNotifyAt < debounceTime
                           THEN @ \cup {f} ELSE {f},
                 !.burstRuns = 0,
                 \* owed: the paths notified during a run and still
                 \* pending, with the path notified now if a run is on
                 !.owed = (@ \cap pendingExtract)
                          \cup (IF Debounced > 0 THEN {f} ELSE {}),
                 !.cancelled = FALSE]
       /\ UNCHANGED <<tasks, escaped, sent>>
     ELSE IF isCompiledMessageFile(f) THEN
       \* JSON.parse(await read()) may throw; the catch logs it
       /\ \E ok \in BOOLEAN :
            /\ sent' = IF ok THEN sent \cup {f} ELSE sent
            /\ escaped' = IF ok THEN escaped ELSE hotUpdateCatch(escaped)
       /\ UNCHANGED <<timer, inProgress, pendingExtract, hostTimers, tasks, log>>
     ELSE
       \* a source file that is let pass is remembered
       /\ log' = [log EXCEPT !.skipped = @ \/ isFileInInclude(f)]
       /\ UNCHANGED <<timer, inProgress, pendingExtract, hostTimers, tasks,
                      escaped, sent>>
  /\ UNCHANGED <<debounceTime, autoExtract, extractOnBuild, now>>
  /\ UNCHANGED otherThanCoord

\* server.watcher.on('add', ...), plugin.ts:78-87
watcherOnAdd(f) ==
  /\ isMessageFile(f)
  /\ HostMayStart
  /\ tasks' = Started(NewTask("compile", f, {}))
  /\ UNCHANGED <<debounceTime, autoExtract, extractOnBuild, timer, inProgress,
                 pendingExtract, hostTimers, now, escaped, sent, log>>
  /\ UNCHANGED otherThanCoord

\* Variant: the hook does not look at config.extractOnBuild.
buildStart_IgnoresOption ==
  /\ \A t \in Running : t.kind # "build"
  /\ HostMayStart
  /\ tasks' = Started(NewTask("build", NoFile, {}))
  /\ UNCHANGED <<debounceTime, autoExtract, extractOnBuild, timer, inProgress,
                 pendingExtract, hostTimers, now, escaped, sent, log>>
  /\ UNCHANGED otherThanCoord

\* buildStart(), plugin.ts:92-106, up to its first await.  The host awaits
\* the hook, so it is not re-entered while its build-start run is in flight.
buildStart ==
  /\ extractOnBuild
  /\ \A t \in Running : t.kind # "build"
  /\ HostMayStart
  /\ tasks' = Started(NewTask("build", NoFile, {}))
  /\ UNCHANGED <<debounceTime, autoExtract, extractOnBuild, timer, inProgress,
                 pendingExtract, hostTimers, now, escaped, sent, log>>
  /\ UNCHANGED otherThanCoord

\* buildEnd(), plugin.ts:159-161
buildEnd ==
  /\ SetClosure(clear(Closure))
  /\ log' = [log EXCEPT !.cancelled = TRUE, !.owed = {}, !.burst = {}]
  /\ UNCHANGED <<debounceTime, autoExtract, extractOnBuild, now, tasks,
                 escaped, sent>>
  /\ UNCHANGED otherThanCoord

\* --------------------------------------------------- debounced extraction

\* The setTimeout callback: void debouncedExtract(), plugin.ts:40-48, up to
\* the first await.
timerFires(h) ==
  /\ h \in hostTimers
  /\ now >= h.deadline
  /\ hostTimers' = hostTimers \ {h}
  /\ IF inProgress THEN
       UNCHANGED <<inProgress, tasks, log>>
     ELSE
       /\ inProgress' = TRUE
       /\ tasks' = Started(NewTask("debounced", NoFile, pendingExtract))
       /\ log' = [log EXCEPT !.burstRuns = @ + 1,
                             !.owed = {}]
  /\ UNCHANGED <<debounceTime, autoExtract, extractOnBuild, timer,
                 pendingExtract, now, escaped, sent>>
  /\ UNCHANGED otherThanCoord

\* An awaited call of debouncedExtract resolves: extractMessage, then
\* compileMessageFile(outFile), then the finally-block (plugin.ts:48-58).
debouncedExtractResume(t) ==
  /\ t \in Running /\ t.kind = "debounced"
  /\ IF t.stage = "extract" THEN
       /\ tasks' = Finished(t) (+) SetToBag({[t EXCEPT !.stage = "compile"]})
       /\ UNCHANGED <<timer, inProgress, pendingExtract, hostTimers, log>>
     ELSE
       /\ tasks' = Finished(t)
       /\ SetClosure(debouncedExtractFinally(Closure))
       /\ log' = [log EXCEPT !.lastOutcome = "ok"]
  /\ UNCHANGED <<debounceTime, autoExtract, extractOnBuild, now, escaped, sent>>
  /\ UNCHANGED otherThanCoord

\* An awaited call of debouncedExtract rejects: catch, then finally.
debouncedExtractThrow(t) ==
  /\ t \in Running /\ t.kind = "debounced"
  /\ tasks' = Finished(t)
  /\ escaped' = debouncedExtractCatch(escaped)
  /\ SetClosure(debouncedExtractFinally(Closure))
  /\ log' = [log EXCEPT !.lastOutcome = "failed"]
  /\ UNCHANGED <<debounceTime, autoExtract, extractOnBuild, now, sent>>
  /\ UNCHANGED otherThanCoord

\* ------------------------------------------------------------ compile(file)

\* compile(file), plugin.ts:61-73: compileMessageFile resolves
compileResume(t) ==
  /\ t \in Running /\ t.kind = "compile"
  /\ tasks' = Finished(t)
  /\ UNCHANGED <<debounceTime, autoExtract, extractOnBuild, timer, inProgress,
                 pendingExtract, hostTimers, now, escaped, sent, log>>
  /\ UNCHANGED otherThanCoord

\* compile(file): compileMessageFile rejects, the catch logs it
compileThrow(t) ==
  /\ t \in Running /\ t.kind = "compile"
  /\ tasks' = Finished(t)
  /\ escaped' = compileCatch(escaped)
  /\ UNCHANGED <<debounceTime, autoExtract, extractOnBuild, timer, inProgress,
                 pendingExtract, hostTimers, now, sent, log>>
  /\ UNCHANGED otherThanCoord

\* ------------------------------------------------------- build-start run

\* buildStart: extractMessages resolves, then compileMessages resolves
buildStartResume(t) ==
  /\ t \in Running /\ t.kind = "build"
  /\ tasks' = IF t.stage = "extract"
              THEN Finished(t) (+) SetToBag({[t EXCEPT !.stage = "compile"]})
              ELSE Finished(t)
  /\ UNCHANGED <<debounceTime, autoExtract, extractOnBuild, timer, inProgress,
                 pendingExtract, hostTimers, now, escaped, sent, log>>
  /\ UNCHANGED otherThanCoord

\* buildStart: extractMessages or compileMessages rejects, the catch logs it
buildStartThrow(t) ==
  /\ t \in Running /\ t.kind = "build"
  /\ tasks' = Finished(t)
  /\ escaped' = buildStartCatch(escaped)
  /\ UNCHANGED <<debounceTime, autoExtract, extractOnBuild, timer, inProgress,
                 pendingExtract, hostTimers, now, sent, log>>
  /\ UNCHANGED otherThanCoord

Next ==
  \/ Tick
  \/ \E f \in Files : handleHotUpdate(f)
  \/ \E f \in Files : watcherOnAdd(f)
  \/ buildStart
  \/ buildEnd
  \/ \E h \in hostTimers : timerFires(h)
  \/ \E t \in Running : debouncedExtractResume(t)
  \/ \E t \in Running : debouncedExtractThrow(t)
  \/ \E t \in Running : compileResume(t)
  \/ \E t \in Running : compileThrow(t)
  \/ \E t \in Running : buildStartResume(t)
  \/ \E t \in Running : buildStartThrow(t)

Spec == Init /\ [][Next]_vars
\* ======================================================================
\* Properties of the plugin instance
\* ======================================================================

\* Steps, recognised from the state change.
RunStarts == Debounced' > Debounced
RunEnds == Debounced' < Debounced
TimerFired == Cardinality(hostTimers') < Cardinality(hostTimers) /\ timer' = timer
Extracting == CountOf(tasks, {"debounced", "build"}, {"extract"})
NewRuns == {t \in BagToSet(tasks') : CopiesIn(t, tasks') > CopiesIn(t, tasks)}

\* C1: at most one extraction run (debounced or build-start) is in flight
\* at any moment.
C1_SingleFlightExtraction == Extracting <= 1

\* C2: a burst of notifies, each less than debounceTime after the previous
\* one, starts one run only, and that run receives every path of the burst.
C2_BurstRunsOnceWithUnion ==
  [][RunStarts =>
       /\ log.burstRuns = 0
       /\ \A t \in NewRuns : t.files = log.burst]_vars

\* C3: a path notified while a run is in flight stays in pendingExtract
\* until a later run takes it or buildEnd cancels it.
C3_AbsorbedChangeIsKept == log.owed \subseteq pendingExtract

\* C4: a timer firing while a run is in flight starts no run at that
\* moment and leaves a timer armed for after the run.
C4_FiringDuringRunIsRescheduled ==
  [][TimerFired /\ Debounced > 0 => ~RunStarts /\ hostTimers' # {}]_vars

\* C5: pendingExtract is emptied at the moment a run starts, and the end of
\* a run leaves it as it is.
C5_PendingClearedAtRunStart ==
  [][/\ RunStarts => pendingExtract' = {}
     /\ RunEnds => pendingExtract' = pendingExtract]_vars

\* C6: when a run ends, by success or by failure, inProgress is false; and
\* a timer that fires after a failed run starts a run.
C6_RunEndResetsFlag ==
  [][/\ RunEnds => ~inProgress'
     /\ TimerFired /\ log.lastOutcome = "failed" => RunStarts]_vars

C6_Witness ==
  /\ log.lastOutcome = "failed"
  /\ Debounced = 1
  /\ inProgress
  /\ hostTimers = {}

\* C7: after buildEnd no timer is armed and pendingExtract is empty, and no
\* debounced run starts until a source change is notified again.
C7_BuildEndCancels ==
  [][/\ log.cancelled' => hostTimers' = {} /\ pendingExtract' = {}
     /\ log.cancelled => ~RunStarts]_vars

C7_Witness ==
  /\ log.cancelled
  /\ log.hasNotified
  /\ now >= log.lastNotifyAt + debounceTime
  /\ tasks = EmptyBag
  /\ log.lastOutcome = "none"

\* C8: a debounced run starts no earlier than debounceTime after the most
\* recent notify before it.
C8_RunWaitsDebounceTime ==
  [][RunStarts => log.hasNotified /\ now >= log.lastNotifyAt + debounceTime]_vars

C8_Witness ==
  /\ debounceTime > 0
  /\ log.lastNotifyAt > 0
  /\ \E t \in Running : t.kind = "debounced" /\ Cardinality(t.files) = 1
  /\ hostTimers = {} /\ timer # 0
  /\ now >= log.lastNotifyAt + debounceTime

\* C9: no hook and no timer callback lets an error out: nothing is thrown
\* to the host and no promise is left rejected.
C9_NoErrorEscapes == escaped = {}

C9_Witness ==
  /\ log.lastOutcome = "failed"
  /\ escaped = {}
\* Activations suspended in a compilation: compile(file), the compilation a
\* debounced run goes on to, and the batch of buildStart.
ChainedCompiles == CountOf(tasks, {"debounced"}, {"compile"})
Compiling == CountOf(tasks, {"compile", "debounced", "build"}, {"compile"})

\* C16: a debounced extraction run never goes on to compile by itself;
\* compilations are started by buildStart and by a translation file
\* reported to handleHotUpdate or to the watcher only.
C16_ExtractionDoesNotChainCompile == ChainedCompiles = 0

\* C17: at most one compilation is in flight at any moment.
C17_SingleFlightCompilation == Compiling <= 1

\* ======================================================================
\* Part II : extraction with the content cache
\* ======================================================================
OutFiles == 1..NumOutFiles
Contents == 1..NumContents

\* A hex digest is represented by what was hashed and by how many of its
\* leading digits are kept; two such strings are equal when both agree.
\* Different inputs are taken to differ from their first digits on.
Digest(input, len) == [of |-> input, len |-> len]

\* null, as findCache returns it
NoRecord == [hash |-> Digest(0, 0), timestamp |-> 0, outFile |-> 0]

\* generateContentHash, core/types.ts:95-97: the sha256 digest in hex.
generateContentHash(content) == Digest(content, HashHexLen)

\* getOutFileHash, utils/cache.ts:27-31: md5 of the absolute path, cut to 8.
getOutFileHash(outFile) == Digest(outFile, KeyHexLen)

\* String.prototype.slice(0, n)
slice(str, n) == [str EXCEPT !.len = IF @ < n THEN @ ELSE n]

\* getCacheFileName, utils/cache.ts:36-40.  The record stands for the name
\* `extract-${key}-${ts}-${prefix}.cache`.
getCacheFileName(outFile, contentHash) ==
  [key |-> getOutFileHash(outFile), ts |-> clock,
   prefix |-> slice(contentHash, CachePrefixLen)]

\* Order of two digests of equal length, as Array.prototype.sort orders the
\* names.
LexLess(a, b) == a.of < b.of

NameLess(f, g) ==
  \/ LexLess(f.key, g.key)
  \/ f.key = g.key /\ f.ts < g.ts
  \/ f.key = g.key /\ f.ts = g.ts /\ LexLess(f.prefix, g.prefix)

\* findCache, utils/cache.ts:45-88.  readOk = FALSE is a failing readdir.
findCache(dir, outFile, readOk) ==
  IF ~readOk \/ ~dir.exists THEN NoRecord
  ELSE LET cacheFiles == {f \in dir.files : f.key = getOutFileHash(outFile)}
       IN IF cacheFiles = {} THEN NoRecord
          ELSE LET latestFile == CHOOSE f \in cacheFiles :
                                   \A g \in cacheFiles : ~NameLess(f, g)
               IN [hash |-> latestFile.prefix, timestamp |-> latestFile.ts,
                   outFile |-> outFile]

\* The file-system call of writeCache that fails, if any.
CacheWriteModes == {"ok", "mkdir", "cleanup", "write"}

\* Variant: the directory is left as it is.
writeCache_KeepsOldRecord(dir, outFile, contentHash, mode) == dir

\* writeCache, utils/cache.ts:93-132.  mode names the file-system call that
\* fails, if any; every failure is swallowed.
writeCache(dir, outFile, contentHash, mode) ==
  LET old == {f \in dir.files : f.key = getOutFileHash(outFile)}
      new == getCacheFileName(outFile, contentHash)
  IN CASE mode = "mkdir" -> dir
       [] mode = "cleanup" -> [exists |-> TRUE, files |-> dir.files \cup {new}]
       [] mode = "write" -> [exists |-> TRUE, files |-> dir.files \ old]
       [] OTHER -> [exists |-> TRUE, files |-> (dir.files \ old) \cup {new}]

\* Variant: the full digest is cut to the length the cache keeps before the
\* comparison.
isChangedOf_ComparesPrefix(cache, contentHash) ==
  cache = NoRecord \/ cache.hash # slice(contentHash, CachePrefixLen)

\* The comparison of core/types.ts:152.
isChangedOf(cache, contentHash) == cache = NoRecord \/ cache.hash # contentHash

\* Variant: the catch-block of findCache rethrows.
findCacheCatch_Rethrows(failed) == failed

\* catch-block of findCache, utils/cache.ts:85-87: returns null, rethrows
\* nothing.  The result says whether the caller sees an exception.
findCacheCatch(failed) == FALSE

\* Variant: the outer catch of writeCache rethrows.
writeCacheCatch_Rethrows(failed) == failed

\* Outer catch-block of writeCache, utils/cache.ts:129-131: logs, rethrows
\* nothing.
writeCacheCatch(failed) == FALSE

\* Variant: the record is written before outFile is.
writeMessageFileRejects_CacheFirst(dir, outFile, contentHash) ==
  writeCache(dir, outFile, contentHash, "ok")

\* await writeMessageFile(...) rejects, core/types.ts:156: the writeCache
\* call of line 159 is not reached and the cache directory is as it was.
writeMessageFileRejects(dir, outFile, contentHash) == dir

\* The record says the content is the one extracted now, while outFile holds
\* something else or is missing.
StaleFor(o, cache, contentHash) ==
  /\ cache # NoRecord
  /\ cache.hash = slice(contentHash, CachePrefixLen)
  /\ disk[o] # source

\* What the record found says about the content extracted now.
RecordFor(cache, contentHash) ==
  IF cache = NoRecord THEN "missing"
  ELSE IF cache.hash = slice(contentHash, CachePrefixLen) THEN "same"
  ELSE "other"

\* The calls that fail in one run of extractMessages.
FaultsOf(extractOk, readOk, writeOk, mode) ==
  (IF extractOk THEN 0 ELSE 1) + (IF readOk THEN 0 ELSE 1)
  + (IF writeOk THEN 0 ELSE 1) + (IF mode = "ok" THEN 0 ELSE 1)

\* A call fails only if the run gets to it: nothing follows a failing
\* extract(), writeCache follows a successful write of outFile only, and
\* neither is called when nothing changed.
OnlyReachedCallsFail(extractOk, readOk, writeOk, mode, isChanged) ==
  /\ ~extractOk => readOk /\ writeOk /\ mode = "ok"
  /\ ~writeOk => mode = "ok"
  /\ ~isChanged => writeOk /\ mode = "ok"

\* extractMessages, core/types.ts:125-178, for the pipeline whose outFile is
\* o.  extractOk, writeOk: whether extract() and the write of outFile succeed.
extractMessages(o, extractOk, readOk, writeOk, mode) ==
  /\ xlog.faults + FaultsOf(extractOk, readOk, writeOk, mode) <= MaxFaults
  \* const cache = await findCache(outFile), core/types.ts:150
  /\ \E cache \in {findCache(cacheDir, o, readOk)} :
       LET contentHash == generateContentHash(source)
           isChanged == isChangedOf(cache, contentHash)
           faults == FaultsOf(extractOk, readOk, writeOk, mode)
           clean == faults = 0
       IN /\ OnlyReachedCallsFail(extractOk, readOk, writeOk, mode, isChanged)
          /\ IF ~extractOk THEN
               /\ UNCHANGED <<disk, cacheDir>>
               /\ xlog' = [xlog EXCEPT !.threw = TRUE, !.repeat = FALSE,
                                       !.isChanged = FALSE, !.wrote = FALSE,
                                       !.settled = 0,
                                       !.faults = @ + faults,
                                       !.ran = 0, !.stale = FALSE,
                                       !.cacheFault = FALSE, !.record = "none"]
             ELSE IF isChanged /\ ~writeOk THEN
               /\ UNCHANGED disk
               /\ cacheDir' = writeMessageFileRejects(cacheDir, o, contentHash)
               /\ xlog' = [xlog EXCEPT !.threw = TRUE, !.repeat = FALSE,
                                       !.isChanged = TRUE, !.wrote = FALSE,
                                       !.settled = 0,
                                       !.faults = @ + faults,
                                       !.ran = 0, !.stale = FALSE,
                                       !.cacheFault = FALSE, !.record = "none"]
             ELSE
               /\ disk' = IF isChanged THEN [disk EXCEPT ![o] = source]
                          ELSE disk
               /\ cacheDir' = IF isChanged
                              THEN writeCache(cacheDir, o, contentHash, mode)
                              ELSE cacheDir
               /\ LET rethrown == \/ findCacheCatch(~readOk \/ ~cacheDir.exists)
                                   \/ writeCacheCatch(isChanged /\ mode # "ok")
                  IN xlog' = [xlog EXCEPT
                             !.threw = rethrown,
                             !.repeat = clean /\ xlog.settled = o,
                             !.isChanged = isChanged,
                             !.wrote = isChanged,
                             !.settled = IF clean THEN o ELSE 0,
                             !.faults = @ + faults,
                             !.ran = IF rethrown THEN 0 ELSE o,
                             !.stale = StaleFor(o, cache, contentHash),
                             !.cacheFault =
                               ~readOk \/ (isChanged /\ mode # "ok"),
                             !.record = RecordFor(cache, contentHash)]
  /\ UNCHANGED <<clock, source>>
  /\ UNCHANGED otherThanCache

\* The history once something happened after the last run.
Between(x) ==
  [x EXCEPT !.settled = 0, !.repeat = FALSE, !.isChanged = FALSE,
            !.wrote = FALSE, !.threw = FALSE, !.ran = 0, !.stale = FALSE,
            !.cacheFault = FALSE, !.record = "none"]

\* The sources change: extract() yields another message map from now on.
SourceEdit(c) ==
  /\ c \in Contents /\ c # source
  /\ source' = c
  /\ xlog' = Between(xlog)
  /\ UNCHANGED <<disk, cacheDir, clock>>
  /\ UNCHANGED otherThanCache

\* Date.now() moves on.
ClockTick ==
  /\ clock < MaxClock
  /\ clock' = clock + 1
  /\ UNCHANGED <<disk, cacheDir, source, xlog>>
  /\ UNCHANGED otherThanCache

\* The outFile whose rewriting and deletion by others is followed; the
\* outFiles of the other pipelines change through their own runs only.
TouchedOutFile == CHOOSE o \in OutFiles : TRUE

\* Something other than the plugin rewrites or deletes outFile.
OutFileTouched(o, c) ==
  /\ c \in Contents \cup {0} /\ c # disk[o]
  /\ disk' = [disk EXCEPT ![o] = c]
  /\ xlog' = Between(xlog)
  /\ UNCHANGED <<cacheDir, clock, source>>
  /\ UNCHANGED otherThanCache

\* clearCache, utils/cache.ts:137-158
clearCache(o) ==
  /\ cacheDir.exists
  /\ cacheDir' = [cacheDir EXCEPT
                    !.files = {f \in @ : f.key # getOutFileHash(o)}]
  /\ xlog' = Between(xlog)
  /\ UNCHANGED <<disk, clock, source>>
  /\ UNCHANGED otherThanCache

\* clearAllCache, utils/cache.ts:163-174
clearAllCache ==
  /\ cacheDir.exists
  /\ cacheDir' = [exists |-> FALSE, files |-> {}]
  /\ xlog' = Between(xlog)
  /\ UNCHANGED <<disk, clock, source>>
  /\ UNCHANGED otherThanCache

NextCache ==
  \/ \E o \in OutFiles, extractOk \in BOOLEAN :
       \E readOk, writeOk \in IF extractOk THEN BOOLEAN ELSE {TRUE} :
         \E mode \in IF extractOk /\ writeOk THEN CacheWriteModes ELSE {"ok"} :
           extractMessages(o, extractOk, readOk, writeOk, mode)
  \/ \E c \in Contents : SourceEdit(c)
  \/ ClockTick
  \/ \E c \in Contents \cup {0} : OutFileTouched(TouchedOutFile, c)
  \/ \E o \in OutFiles : clearCache(o)
  \/ clearAllCache

InitIdle ==
  /\ InitCache
  /\ InitCoord
  /\ InitWriters
  /\ InitStages

SpecCache == InitIdle /\ [][NextCache]_vars

\* ======================================================================
\* Properties of the cached extraction
\* ======================================================================

\* C10: a run that repeats the previous run's serialized output, with
\* nothing failing and nothing touched in between, reports isChanged=false
\* and does not write outFile.
C10_SecondRunSkipsWrite == xlog.repeat => ~xlog.isChanged /\ ~xlog.wrote

\* C11: right after a run of extractMessages that did not throw, outFile
\* holds what that run serialized, whatever the cache recorded before it,
\* also when outFile was rewritten or deleted after the record was written.
C11_CacheNeverSkipsNeededWrite == xlog.ran # 0 => disk[xlog.ran] = source

C11_Witness ==
  /\ xlog.ran # 0
  /\ xlog.stale
  /\ disk[xlog.ran] = source

NoName == [key |-> Digest(0, 0), ts |-> 0, prefix |-> Digest(0, 0)]

\* f.startsWith(`extract-${outFileHash}-`), utils/cache.ts:107-109
oldCacheFiles(dir, outFile) == {f \in dir.files : f.key = getOutFileHash(outFile)}

Writing == BagToSet(writers)
Advance(w, v) == (writers (-) SetToBag({w})) (+) SetToBag({v})

\* writeCache(outFile, contentHash) is called: runs up to `await fs.mkdir`.
writeCacheCall(o, c) ==
  /\ BagCardinality(writers) < MaxWriters
  /\ writers' = writers (+) SetToBag({[outFile |-> o,
                                       contentHash |-> generateContentHash(c),
                                       stage |-> "mkdir", old |-> {},
                                       name |-> NoName]})
  /\ UNCHANGED <<coordVars, cacheVars, stageVars>>

\* mkdir(cacheDir, {recursive: true}) resolves; readdir is issued.
writeCacheMkdir(w) ==
  /\ w \in Writing /\ w.stage = "mkdir"
  /\ cacheDir' = [cacheDir EXCEPT !.exists = TRUE]
  /\ writers' = Advance(w, [w EXCEPT !.stage = "readdir"])
  /\ UNCHANGED <<coordVars, stageVars, disk, clock, source, xlog>>

\* readdir resolves with the names present now; the unlinks are issued.
writeCacheReaddir(w) ==
  /\ w \in Writing /\ w.stage = "readdir"
  /\ writers' = Advance(w, [w EXCEPT !.stage = "unlink",
                                      !.old = oldCacheFiles(cacheDir, w.outFile)])
  /\ UNCHANGED <<coordVars, cacheVars, stageVars>>

\* The unlinks settle (one that finds its file gone is ignored); the new
\* name is made with Date.now() and writeFile is issued.
writeCacheUnlink(w) ==
  /\ w \in Writing /\ w.stage = "unlink"
  /\ cacheDir' = [cacheDir EXCEPT !.files = @ \ w.old]
  /\ writers' = Advance(w, [w EXCEPT
                   !.stage = "writeFile", !.old = {},
                   !.name = getCacheFileName(w.outFile, w.contentHash)])
  /\ UNCHANGED <<coordVars, stageVars, disk, clock, source, xlog>>

\* writeFile resolves: the empty file exists under the new name.
writeCacheWriteFile(w) ==
  /\ w \in Writing /\ w.stage = "writeFile"
  /\ cacheDir' = [cacheDir EXCEPT !.files = @ \cup {w.name}]
  /\ writers' = writers (-) SetToBag({w})
  /\ UNCHANGED <<coordVars, stageVars, disk, clock, source, xlog>>

NextWriters ==
  \/ \E o \in OutFiles, c \in Contents : writeCacheCall(o, c)
  \/ \E w \in Writing : writeCacheMkdir(w)
  \/ \E w \in Writing : writeCacheReaddir(w)
  \/ \E w \in Writing : writeCacheUnlink(w)
  \/ \E w \in Writing : writeCacheWriteFile(w)
  \/ ClockTick

SpecWriters == InitIdle /\ [][NextWriters]_vars

\* C13: whatever writeCache calls were made, for other outFiles or for the
\* same outFile at the same time, the cache directory holds at most one
\* record for each outFile.
C13_AtMostOneRecordPerOutFile ==
  \A o \in OutFiles : Cardinality(oldCacheFiles(cacheDir, o)) <= 1

\* ======================================================================
\* Part IV : extraction into the canonical file
\* ======================================================================
\* core/extract.ts: extractMessages extracts the whole include set and lets
\* the library write outFile; extractMessage extracts the files given and
\* merges the result into outFile.

SrcFiles == 1..NumSrc
Keys == 1..NumKeys
Values == 1..NumValues

\* The source file that defines message id k.
Owner(k) == ((k - 1) % NumSrc) + 1

\* Ignore patterns match no file or the first one.
IgnoreChoices == {{}, {1}}

\* globSync(options.include, {ignore: options.ignore})
globSync == SrcFiles \ ignore

\* extract(files, extractConfig) of @formatjs/cli-lib: the messages the
\* given files define, those matched by extractConfig.ignore left out.
extract(files) ==
  [k \in Keys |-> IF Owner(k) \in files \ ignore THEN srcMsgs[k] ELSE 0]

\* Variant: the extracted map is written as it is.
mergedMessages_Replaces(existingMessagesJson, messages) == messages

\* {...existingMessagesJson, ...messages}
mergedMessages(existingMessagesJson, messages) ==
  [k \in Keys |-> IF messages[k] # 0 THEN messages[k]
                                      ELSE existingMessagesJson[k]]

\* Variant: the library output is merged into what outFile holds.
extractAndWrite_Merges(existing, messages) ==
  [k \in Keys |-> IF messages[k] # 0 THEN messages[k] ELSE existing[k]]

\* extractAndWrite(files, extractConfig) of @formatjs/cli-lib: outFile is
\* written with the extracted map.
extractAndWrite(existing, messages) == messages

\* extractMessage(files, options): extract, read outFile, merge, write.
\* extractOk, writeOk: whether extract() and fs.writeFile succeed; reading a
\* missing outFile fails.  Any failure rejects before outFile is written.
extractMessage(files, extractOk, writeOk) ==
  LET messages == extract(files)
      existingMessagesJson == canon.messages
  IN /\ files # {} /\ files \subseteq globSync
     /\ IF extractOk /\ canon.exists /\ writeOk THEN
          /\ canon' = [canon EXCEPT
                         !.messages = mergedMessages(existingMessagesJson, messages)]
          /\ mlog' = [kind |-> "incremental", files |-> files,
                      won |-> \E k \in Keys :
                                /\ messages[k] # 0
                                /\ existingMessagesJson[k] \notin {0, messages[k]},
                      stale |-> FALSE]
        ELSE
          /\ UNCHANGED canon
          /\ mlog' = [InitMergeLog EXCEPT !.kind = "failed"]
     /\ UNCHANGED <<srcMsgs, ignore>>
     /\ UNCHANGED otherThanMerge

\* extractMessages(options): the full extraction.
extractMessagesOfAll(extractOk) ==
  LET files == globSync
      messages == extract(files)
  IN /\ IF extractOk THEN
          /\ canon' = [exists |-> TRUE,
                       messages |-> extractAndWrite(canon.messages, messages)]
          /\ mlog' = [kind |-> "full", files |-> files, won |-> FALSE,
                      stale |-> \E k \in Keys :
                                  canon.messages[k] # 0 /\ messages[k] = 0]
        ELSE
          /\ UNCHANGED canon
          /\ mlog' = [InitMergeLog EXCEPT !.kind = "failed"]
     /\ UNCHANGED <<srcMsgs, ignore>>
     /\ UNCHANGED otherThanMerge

\* A source file is edited: message id k gets the text v, or goes (v = 0).
SourceChange(k, v) ==
  /\ v # srcMsgs[k]
  /\ srcMsgs' = [srcMsgs EXCEPT ![k] = v]
  /\ mlog' = InitMergeLog
  /\ UNCHANGED <<canon, ignore>>
  /\ UNCHANGED otherThanMerge

NextMerge ==
  \/ \E files \in SUBSET SrcFiles, extractOk, writeOk \in BOOLEAN :
        extractMessage(files, extractOk, writeOk)
  \/ \E extractOk \in BOOLEAN : extractMessagesOfAll(extractOk)
  \/ \E k \in Keys, v \in Values \cup {0} : SourceChange(k, v)

InitMergeRuns ==
  /\ InitCoord
  /\ InitCache
  /\ InitWriters
  /\ InitCompile
  /\ InitPath
  /\ InitMore
  /\ canon = [exists |-> FALSE, messages |-> NoMessages]
  /\ srcMsgs = NoMessages
  /\ ignore \in IgnoreChoices
  /\ mlog = InitMergeLog

SpecMerge == InitMergeRuns /\ [][NextMerge]_vars

\* C14: an incremental run that succeeds leaves in outFile, for every
\* message id, the newly extracted entry if there is one and the entry
\* outFile held before otherwise; the entries of files that were not
\* extracted are as before.
C14_IncrementalRunMerges ==
  [][mlog'.kind = "incremental" =>
       /\ canon'.exists
       /\ \A k \in Keys :
            /\ extract(mlog'.files)[k] # 0 =>
                  canon'.messages[k] = extract(mlog'.files)[k]
            /\ extract(mlog'.files)[k] = 0 =>
                  canon'.messages[k] = canon.messages[k]
            /\ Owner(k) \notin mlog'.files =>
                  canon'.messages[k] = canon.messages[k]]_vars

C14_Witness ==
  /\ mlog.kind = "incremental"
  /\ mlog.won
  /\ \E k \in Keys : Owner(k) \notin mlog.files /\ canon.messages[k] # 0

\* C15: after a full extraction that succeeds, outFile holds exactly the
\* messages of the files matched by include and not by ignore: an entry
\* left by an earlier run and no longer extracted is gone.
C15_FullRunReplaces ==
  mlog.kind = "full" => canon.exists /\ canon.messages = extract(globSync)

C15_Witness ==
  /\ mlog.kind = "full"
  /\ mlog.stale
  /\ \E k \in Keys : canon.messages[k] # 0

\* ======================================================================
\* Part V : compilation
\* ======================================================================
\* packages/plugin/src/core/compile.ts.  A translation file is absent, holds
\* text that is not JSON ("invalid"), holds JSON the compiler rejects
\* ("faulty") or compiles ("good").

Locales == 1..NumLocales
FileStates == {"absent", "invalid", "faulty", "good"}

\* What Date.now() - startTime may be for a call that succeeded.
Durations == 0..MaxElapsed

\* findMessageFiles(options), compile.ts:16-45: the .json entries of
\* inputDir whose content parses.
findMessageFiles == {l \in Locales : messageFiles[l] \in {"faulty", "good"}}

\* Variant: the catch-block rethrows.
compileMessageFileCatch_Rethrows(r) == [r EXCEPT !.threw = TRUE]

\* catch-block of compileMessageFile, compile.ts:101-105: logs, returns 0.
compileMessageFileCatch(r) == [r EXCEPT !.threw = FALSE, !.returned = 0]

\* compileMessageFile(messageFile, options), compile.ts:77-107.  ioOk:
\* whether compileAndWrite can create the directory and write the file.
compileMessageFile(l, elapsed, ioOk) ==
  LET accessOk == messageFiles[l] # "absent"
      ok == accessOk /\ messageFiles[l] = "good" /\ ioOk
      attempt == [op |-> "one", threw |-> ~ok, returned |-> elapsed,
                  failed |-> IF ok THEN {} ELSE {l},
                  wrote |-> IF ok THEN {l} ELSE {}]
  IN /\ compiledFiles' = compiledFiles \cup attempt.wrote
     /\ clog' = IF ok THEN attempt ELSE compileMessageFileCatch(attempt)
     /\ UNCHANGED messageFiles
     /\ UNCHANGED otherThanCompile

\* catch-block of compileMessages, compile.ts:148-151: logs and rethrows.
compileMessagesCatch(r) == [r EXCEPT !.threw = TRUE, !.returned = 0]

\* compileMessages(options), compile.ts:112-152.  io names the directory
\* call that fails, if any; unwritable is the set of artifacts whose
\* writeFile fails.  Promise.all rejects as soon as one compile rejects, and
\* the writes are issued only after every compile resolved.
compileMessages(elapsed, io, unwritable) ==
  LET files == findMessageFiles
      rejected == {l \in files : messageFiles[l] # "good"}
      dirsOk == io = "ok"
      compiled == dirsOk /\ rejected = {}
      written == IF compiled THEN files \ unwritable ELSE {}
      failed == IF ~dirsOk THEN {}
                ELSE IF rejected # {} THEN rejected
                ELSE files \cap unwritable
      attempt == [op |-> "all", threw |-> FALSE, returned |-> elapsed,
                  failed |-> failed, wrote |-> written]
  IN /\ compiledFiles' = compiledFiles \cup written
     /\ clog' = IF compiled /\ failed = {} THEN attempt
                ELSE compileMessagesCatch(attempt)
     /\ UNCHANGED messageFiles
     /\ UNCHANGED otherThanCompile

\* A translation file is created, edited or removed.
MessageFileChange(l, st) ==
  /\ st # messageFiles[l]
  /\ messageFiles' = [messageFiles EXCEPT ![l] = st]
  /\ clog' = InitCompileLog
  /\ UNCHANGED compiledFiles
  /\ UNCHANGED otherThanCompile

NextCompile ==
  \/ \E l \in Locales, elapsed \in Durations, ioOk \in BOOLEAN :
        compileMessageFile(l, elapsed, ioOk)
  \/ \E elapsed \in Durations, io \in {"ok", "mkdir", "readdir"},
        unwritable \in {{}} \cup {{l} : l \in Locales} :
        compileMessages(elapsed, io, unwritable)
  \/ \E l \in Locales, st \in FileStates : MessageFileChange(l, st)

SpecCompile == InitIdle /\ [][NextCompile]_vars

\* C18: when the compilation of one translation file fails in a batch, the
\* batch does not throw and every other file of the batch is compiled and
\* written.
C18_BatchIsolatesFailure ==
  clog.op = "all" /\ clog.failed # {} =>
    /\ ~clog.threw
    /\ findMessageFiles \ clog.failed \subseteq clog.wrote

DirNames == {<<".">>, <<"l">>, <<"l", "m">>}
BaseNames == {<<"l", ".json">>, <<"m", ".json">>, <<"l", ".ts">>}
Dirs == UNION {[1..n -> DirNames] : n \in 0..MaxDepth}
DirPaths == [abs : BOOLEAN, segs : Dirs]
FilePaths == {[abs |-> a, segs |-> Append(d, b)] :
                a \in BOOLEAN, d \in Dirs, b \in BaseNames}

RECURSIVE Join(_)
\* The segments joined by the separator.
Join(segs) ==
  IF segs = << >> THEN << >>
  ELSE IF Len(segs) = 1 THEN Head(segs)
  ELSE Head(segs) \o <<"/">> \o Join(Tail(segs))

\* The string a path is written as.
PathString(p) == (IF p.abs THEN <<"/">> ELSE << >>) \o Join(p.segs)

NotDot(seg) == seg # <<".">>

\* path.normalize: "." segments go; an empty relative path becomes ".".
normalize(p) ==
  LET kept == SelectSeq(p.segs, NotDot)
  IN [p EXCEPT !.segs = IF kept = << >> /\ ~p.abs THEN << <<".">> >> ELSE kept]

\* String.prototype.startsWith and endsWith
startsWith(str, prefix) ==
  Len(prefix) <= Len(str) /\ SubSeq(str, 1, Len(prefix)) = prefix
endsWith(str, ext) == str # << >> /\ str[Len(str)] = ext

\* path.basename
basename(p) == IF p.segs = << >> THEN << >> ELSE p.segs[Len(p.segs)]

\* Variant: the file name is not compared with the main message file.
isMessageFileByPath_NoExclusion(filePath, opts) ==
  IF opts.outFile = NoPath THEN FALSE
  ELSE IF ~startsWith(PathString(normalize(filePath)),
                      PathString(normalize(opts.inputDir))) THEN FALSE
  ELSE endsWith(basename(filePath), ".json")

\* isMessageFile(filePath, options), compile.ts:50-72
isMessageFileByPath(filePath, opts) ==
  IF opts.outFile = NoPath THEN FALSE
  ELSE LET normalizedFilePath == PathString(normalize(filePath))
           normalizedMessageDir == PathString(normalize(opts.inputDir))
           fileName == basename(filePath)
           mainMessageFile == basename(opts.outFile)
       IN IF ~startsWith(normalizedFilePath, normalizedMessageDir) THEN FALSE
          ELSE endsWith(fileName, ".json") /\ fileName # mainMessageFile

\* The host reports a path and the plugin classifies it.  The classifier
\* keeps no state, so a behaviour asks once: a second report would reach
\* only states a first report reaches.
classify(filePath) ==
  /\ ~probe.asked
  /\ probe' = [filePath |-> filePath,
               isMessageFile |-> isMessageFileByPath(filePath, options),
               asked |-> TRUE]
  /\ UNCHANGED options
  /\ UNCHANGED otherThanPath

NextPath == \E filePath \in FilePaths : classify(filePath)

\* The configuration is any outFile, set or not, and any inputDir that
\* validateConfig accepts.
InitPaths ==
  /\ InitCoord
  /\ InitCache
  /\ InitWriters
  /\ InitMerge
  /\ InitCompile
  /\ InitMore
  /\ options \in [outFile : FilePaths \cup {NoPath}, inputDir : DirPaths \ {NoPath}]
  /\ probe = NoProbe

SpecPath == InitPaths /\ [][NextPath]_vars

\* Two spellings of one file.
SameFile(p, q) == normalize(p) = normalize(q)

\* C20: whatever outFile and inputDir are, a path that names outFile is
\* not classified as a translation file.
C20_OutFileIsNoMessageFile ==
  probe.asked /\ options.outFile # NoPath
  /\ SameFile(probe.filePath, options.outFile) => ~probe.isMessageFile

C20_Witness ==
  /\ probe.asked /\ options.outFile # NoPath
  /\ SameFile(probe.filePath, options.outFile)
  /\ probe.filePath # options.outFile
  /\ startsWith(PathString(normalize(probe.filePath)),
                PathString(normalize(options.inputDir)))
  /\ endsWith(basename(probe.filePath), ".json")
  /\ ~probe.isMessageFile

\* path.dirname of a file path, normalized.
dirname(p) == normalize([p EXCEPT !.segs = SubSeq(@, 1, Len(@) - 1)])

\* C21: a path is classified as a translation file only if its directory
\* is exactly inputDir.
C21_DirectoryMatchIsExact ==
  probe.asked /\ probe.isMessageFile
    => dirname(probe.filePath) = normalize(options.inputDir)

\* ======================================================================
\* Further properties of the plugin instance
\* ======================================================================

\* The closure state of the debounce: timer handle, armed timers, flag and
\* pending set.
Coordinator == <<timer, hostTimers, inProgress, pendingExtract>>

\* C22: a translation file reported to handleHotUpdate starts the
\* compilation of exactly that file in the same step, and the step leaves the
\* timer, the in-progress flag and the pending set as they are.
C22_TranslationChangeBypassesDebounce ==
  [][\A f \in Files :
       f.kind = "message" /\ handleHotUpdate(f) =>
         /\ NewRuns = {[kind |-> "compile", stage |-> "compile", file |-> f,
                        files |-> {}]}
         /\ BagCardinality(tasks') = BagCardinality(tasks) + 1
         /\ Coordinator' = Coordinator]_vars

C22_Witness ==
  /\ \E t \in Running : t.kind = "compile" /\ t.file.kind = "message"
  /\ hostTimers # {}
  /\ pendingExtract # {}

\* C23: with autoExtract disabled no source change arms a timer or puts a
\* path into the pending set, and no debounced extraction runs.
C23_NoAutoExtractNoDebounce ==
  ~autoExtract =>
    /\ hostTimers = {} /\ timer = 0
    /\ pendingExtract = {}
    /\ Debounced = 0
    /\ ~log.hasNotified

C23_Witness ==
  /\ ~autoExtract
  /\ log.skipped
  /\ hostTimers = {} /\ Debounced = 0

\* The activations of buildStart suspended in a given stage.
BuildRuns(bag, stage) == {t \in BagToSet(bag) : t.kind = "build" /\ t.stage = stage}

Instances == 1..NumInstances
Includes == {<< >>, <<"src/**/*">>, <<"app/**/*.ts">>}
OutFileNames == {"", "src/i18n/lang/en.json", "messages.json"}
InputDirs == {"", "src/i18n/lang"}
OutputDirs == {"", "src/i18n/compiled-lang"}
DebounceTimes == {-1, 0, DEFAULT_DEBOUNCE_TIME}

UserConfigs ==
  {[extract |-> [include |-> v]] : v \in Includes}
    \cup {[extract |-> [outFile |-> v]] : v \in OutFileNames}
    \cup {[extract |-> [include |-> v, outFile |-> w]] :
            v \in Includes, w \in OutFileNames}
    \cup {[compile |-> [inputDir |-> v]] : v \in InputDirs}
    \cup {[compile |-> [outputDir |-> v]] : v \in OutputDirs}
    \cup {[debounceTime |-> v] : v \in DebounceTimes}
    \cup {[extractOnBuild |-> v] : v \in BOOLEAN}

\* The call formatjs() or resolveConfig({}): no option is given.
NoOptions == << >>

\* typeof value === 'object' && !Array.isArray(value), for the values a
\* configuration holds.
IsPlainObject(key) == key \in {"extract", "compile"}

\* Variant: an array of userConfig is appended to the array acc holds.
mergeEntries_Concatenates(acc, userConfig) ==
  [key \in DOMAIN acc |->
     IF key \notin DOMAIN userConfig THEN acc[key]
     ELSE IF key = "include" THEN acc[key] \o userConfig[key]
     ELSE userConfig[key]]

\* mergeConfig on the objects DEFAULT_CONFIG refers to: the entries of
\* userConfig are assigned into acc; an array is no plain object and is
\* assigned as a whole.
mergeEntries(acc, userConfig) ==
  [key \in DOMAIN acc |->
     IF key \in DOMAIN userConfig THEN userConfig[key] ELSE acc[key]]

\* mergeConfig, config.ts:50-72.  The reduce starts from defaultConfig itself
\* and assigns into it: the value is what the object defaultConfig refers to
\* holds when the call returns, and the call returns that object.
mergeConfig(defaultConfig, userConfig) ==
  [key \in DOMAIN defaultConfig |->
     IF key \notin DOMAIN userConfig THEN defaultConfig[key]
     ELSE IF IsPlainObject(key)
          THEN mergeEntries(defaultConfig[key], userConfig[key])
          ELSE userConfig[key]]

\* resolveConfig, config.ts:79-86: extractOnBuild is filled in from NODE_ENV
\* when the user left it out, then the options are merged into
\* DEFAULT_CONFIG.
resolveConfig(userConfig) ==
  LET filled == IF "extractOnBuild" \in DOMAIN userConfig THEN userConfig
                ELSE [key \in DOMAIN userConfig \cup {"extractOnBuild"} |->
                        IF key = "extractOnBuild"
                        THEN NODE_ENV = "development"
                        ELSE userConfig[key]]
  IN mergeConfig(DEFAULT_CONFIG, filled)

\* Variant: an empty outFile is let pass.
validateConfig_SkipsOutFile(config) ==
  IF Len(config.extract.include) = 0
    THEN "extract.include must be a non-empty array"
  ELSE IF config.compile.inputDir = ""
    THEN "compile.inputDir must be a non-empty string"
  ELSE IF config.compile.outputDir = ""
    THEN "compile.outputDir must be a non-empty string"
  ELSE IF config.debounceTime # 0 /\ config.debounceTime < 0
    THEN "dev.debounceTime must be greater than or equal to 0"
  ELSE "ok"

\* validateConfig, config.ts:120-143: the error thrown, "ok" for none.
validateConfig(config) ==
  IF Len(config.extract.include) = 0
    THEN "extract.include must be a non-empty array"
  ELSE IF config.extract.outFile = ""
    THEN "extract.outFile must be a non-empty string"
  ELSE IF config.compile.inputDir = ""
    THEN "compile.inputDir must be a non-empty string"
  ELSE IF config.compile.outputDir = ""
    THEN "compile.outputDir must be a non-empty string"
  ELSE IF config.debounceTime # 0 /\ config.debounceTime < 0
    THEN "dev.debounceTime must be greater than or equal to 0"
  ELSE "ok"

\* The object a reference names.
Deref(ref) == DEFAULT_CONFIG

\* The configuration a plugin instance works with.
ConfigOf(i) == Deref(plugins[i].config)

\* resolveConfig is called on its own.
resolveConfigCall(userConfig) ==
  /\ DEFAULT_CONFIG' = resolveConfig(userConfig)
  /\ rlog' = [made |-> TRUE, noOptions |-> userConfig = NoOptions,
              returned |-> "DEFAULT_CONFIG"]
  /\ UNCHANGED <<NODE_ENV, plugins>>
  /\ UNCHANGED otherThanConfig

\* formatjs(options), plugin.ts:21-29: resolveConfig, then validateConfig; if
\* it throws, the caller gets no plugin and no hook of it ever runs.
formatjs(i, userConfig) ==
  /\ plugins[i].state = "none"
  /\ \A j \in 1..(i - 1) : plugins[j].state # "none"
  /\ LET config == resolveConfig(userConfig)
     IN /\ DEFAULT_CONFIG' = config
        /\ plugins' = [plugins EXCEPT
                         ![i].state = IF validateConfig(config) = "ok"
                                      THEN "ready" ELSE "threw",
                         ![i].config = "DEFAULT_CONFIG"]
  /\ rlog' = [made |-> TRUE, noOptions |-> userConfig = NoOptions,
              returned |-> "DEFAULT_CONFIG"]
  /\ UNCHANGED NODE_ENV
  /\ UNCHANGED otherThanConfig

\* A hook of the plugin runs and reads, writes or deletes a file.
hookRuns(i) ==
  /\ plugins[i].state = "ready"
  /\ ~plugins[i].touched
  /\ plugins' = [plugins EXCEPT ![i].touched = TRUE]
  /\ UNCHANGED <<DEFAULT_CONFIG, NODE_ENV, rlog>>
  /\ UNCHANGED otherThanConfig

NextConfig ==
  \/ \E userConfig \in UserConfigs : resolveConfigCall(userConfig)
  \/ resolveConfigCall(NoOptions)
  \/ \E i \in Instances, userConfig \in UserConfigs : formatjs(i, userConfig)
  \/ \E i \in Instances : formatjs(i, NoOptions)
  \/ \E i \in Instances : hookRuns(i)

\* The process runs in development or not.
InitConfigs ==
  /\ InitCoord
  /\ InitCache
  /\ InitWriters
  /\ InitMerge
  /\ InitCompile
  /\ InitPath
  /\ InitInst
  /\ InitServe
  /\ InitLate
  /\ DEFAULT_CONFIG = Defaults
  /\ NODE_ENV \in {"development", "production"}
  /\ plugins = [i \in 1..NumInstances |->
                  [state |-> "none", config |-> "none", touched |-> FALSE]]
  /\ rlog = NoCall

SpecConfig == InitConfigs /\ [][NextConfig]_vars

\* ======================================================================
\* Properties of the configuration
\* ======================================================================

\* What the specification calls an invalid configuration.
Invalid(config) ==
  \/ config.extract.include = << >>
  \/ config.extract.outFile = ""
  \/ config.compile.inputDir = ""
  \/ config.compile.outputDir = ""
  \/ config.debounceTime < 0

Constructed(i) == plugins[i].state = "none" /\ plugins'[i].state # "none"

\* C25: a formatjs() call whose resolved configuration is invalid throws,
\* and a plugin whose construction threw never reads, writes or deletes a
\* file.
C25_InvalidConfigFailsAtStartup ==
  [][\A i \in Instances :
       /\ Constructed(i) /\ Invalid(ConfigOf(i)') => plugins'[i].state = "threw"
       /\ plugins[i].state = "threw" =>
            plugins'[i].state = "threw" /\ ~plugins'[i].touched]_vars

C25_Witness ==
  \E i, j \in Instances :
    /\ plugins[i].state = "threw"
    /\ plugins[j].state = "ready" /\ plugins[j].touched

\* C26: once a plugin instance is constructed, no step changes a field of
\* its configuration.
C26_ConfigIsImmutable ==
  [][\A i \in Instances :
       plugins[i].state = "ready" => ConfigOf(i)' = ConfigOf(i)]_vars

\* The default configuration of a process: the defaults as written, with
\* extractOnBuild as NODE_ENV makes it.
DefaultConfigOfProcess ==
  [Defaults EXCEPT !.extractOnBuild = NODE_ENV = "development"]

\* C28: a resolveConfig call without options returns the default
\* configuration, whatever calls were made before it.
C28_NoOptionsGivesDefaults ==
  rlog.made /\ rlog.noOptions => Deref(rlog.returned) = DefaultConfigOfProcess

\* ======================================================================
\* Part VIII : several plugin instances in one process
\* ======================================================================
\* The debounce of plugin.ts once more, for NumInstances plugins at once and
\* without the clock.  A cell holds the variables one formatjs() call
\* declares; timer says whether the handle is non-null, and the timer a
\* handle names is armed when its cell is in armed.

Sources == {f \in Files : isFileInInclude(f)}

\* Variant: timer, inProgress and pendingExtract are declared at module level.
closureOf_ModuleScope(i) == 1

\* The cell the hooks of plugin i close over: plugin.ts:24-26 declares the
\* variables inside formatjs(), so each call has its own.
closureOf(i) == i

CoordinatorOf(i) ==
  [cell |-> cells[closureOf(i)],
   armed |-> closureOf(i) \in armed,
   runs |-> {r \in BagToSet(runs) : r.cell = closureOf(i)}]

InstLoad == BagCardinality(runs) + Cardinality(armed)

\* clear(), plugin.ts:31-38, on cell c
clearCell(c) ==
  /\ cells' = [cells EXCEPT ![c] = NewCell]
  /\ armed' = IF cells[c].timer THEN armed \ {c} ELSE armed

\* handleHotUpdate of plugin i for a source file, plugin.ts:125-138: clear(),
\* which disarms the timer the handle names, then pendingExtract.add(file)
\* and timer = setTimeout(...).
notifyOf(i, f) ==
  /\ plugins[i].state = "ready"
  /\ InstLoad - (IF closureOf(i) \in armed THEN 1 ELSE 0) < MaxInFlight
  /\ cells' = [cells EXCEPT ![closureOf(i)] =
                 [timer |-> TRUE, inProgress |-> FALSE, pendingExtract |-> {f}]]
  /\ armed' = armed \cup {closureOf(i)}
  /\ UNCHANGED runs
  /\ UNCHANGED otherThanInst

\* The timer armed by a hook of plugin i fires: debouncedExtract up to its
\* first await, plugin.ts:40-48
timerFiresOf(i) ==
  /\ closureOf(i) \in armed
  /\ armed' = armed \ {closureOf(i)}
  /\ IF cells[closureOf(i)].inProgress THEN UNCHANGED <<cells, runs>>
     ELSE /\ cells' = [cells EXCEPT ![closureOf(i)].inProgress = TRUE]
          /\ runs' = runs (+) SetToBag({[cell |-> closureOf(i),
                                        files |-> cells[closureOf(i)].pendingExtract]})
  /\ UNCHANGED otherThanInst

\* A run of plugin i ends: the finally-block, plugin.ts:55-58
runEndsOf(i, r) ==
  /\ r \in BagToSet(runs) /\ r.cell = closureOf(i)
  /\ runs' = runs (-) SetToBag({r})
  /\ cells' = [cells EXCEPT ![closureOf(i)].inProgress = FALSE,
                            ![closureOf(i)].pendingExtract = {}]
  /\ UNCHANGED armed
  /\ UNCHANGED otherThanInst

\* buildEnd of plugin i, plugin.ts:159-161
buildEndOf(i) ==
  /\ plugins[i].state = "ready"
  /\ clearCell(closureOf(i))
  /\ UNCHANGED runs
  /\ UNCHANGED otherThanInst

OperationOn(i) ==
  \/ \E f \in Sources : notifyOf(i, f)
  \/ timerFiresOf(i)
  \/ \E r \in BagToSet(runs) : runEndsOf(i, r)
  \/ buildEndOf(i)

NextInst ==
  \/ \E i \in Instances, f \in Sources : notifyOf(i, f)
  \/ \E i \in Instances : timerFiresOf(i)
  \/ \E i \in Instances, r \in BagToSet(runs) : runEndsOf(i, r)
  \/ \E i \in Instances : buildEndOf(i)

\* Every plugin was created by formatjs() without options.
InitInstances ==
  /\ InitCoord
  /\ InitCache
  /\ InitWriters
  /\ InitMerge
  /\ InitCompile
  /\ InitPath
  /\ InitInst
  /\ InitServe
  /\ InitLate
  /\ DEFAULT_CONFIG = Defaults
  /\ NODE_ENV = "production"
  /\ plugins = [i \in 1..NumInstances |->
                  [state |-> "ready", config |-> "DEFAULT_CONFIG",
                   touched |-> FALSE]]
  /\ rlog = [made |-> TRUE, noOptions |-> TRUE, returned |-> "DEFAULT_CONFIG"]

SpecInstances == InitInstances /\ [][NextInst]_vars

\* C27: a notify, a timer firing, the end of a run and a cancel of one
\* plugin instance leave the timer, the flag, the pending set and the runs of
\* every other instance as they are.
C27_CoordinatorIsPerInstance ==
  [][\A i, j \in Instances :
       i # j /\ OperationOn(i) => CoordinatorOf(j)' = CoordinatorOf(j)]_vars

C27_Witness ==
  \E i, j \in Instances :
    /\ i # j
    /\ cells[closureOf(i)].inProgress
    /\ CoordinatorOf(i).runs # {}
    /\ closureOf(j) \in armed
    /\ cells[closureOf(j)].pendingExtract # {}
    /\ ~cells[closureOf(j)].inProgress

\* ======================================================================
\* Part IX : the plugin with hot reload
\* ======================================================================
\* formatjs() of src/plugin.ts.  debounceTimer is "null", "armed" or, once
\* the timer has fired, "fired": the handle stays in the variable.

\* Variant: the reload does not depend on config.hotReload.
shouldReload_IgnoresHotReload(result, config) == result.isChanged

\* The condition of src/plugin.ts:44
shouldReload(result, config) == result.isChanged /\ config.hotReload

\* handleHotUpdate, src/plugin.ts:80-103
handleHotUpdateServe(f) ==
  /\ isFileInInclude(f)
  /\ serve' = [serve EXCEPT !.pendingFiles = @ \cup {f},
                            !.debounceTimer = "armed"]
  /\ UNCHANGED slog
  /\ UNCHANGED otherThanServe

\* The timer fires: debouncedExtract(server) up to its await,
\* src/plugin.ts:24-33
timerFiresServe ==
  /\ serve.debounceTimer = "armed"
  /\ serve' = [serve EXCEPT
                 !.debounceTimer = "fired",
                 !.extractionInProgress = TRUE,
                 !.running = @ \/ ~serve.extractionInProgress]
  /\ UNCHANGED slog
  /\ UNCHANGED otherThanServe

\* extractMessages(config) resolves with result: the reload, then the
\* finally-block, src/plugin.ts:33-59
debouncedExtractServeResume(isChanged) ==
  /\ serve.running
  /\ serve' = [serve EXCEPT !.running = FALSE,
                            !.extractionInProgress = FALSE,
                            !.pendingFiles = {}]
  /\ slog' = [outcome |-> "resolved", isChanged |-> isChanged,
              reloaded |-> shouldReload([isChanged |-> isChanged], serve)]
  /\ UNCHANGED otherThanServe

\* extractMessages(config) rejects: the catch logs, then the finally-block
debouncedExtractServeThrow ==
  /\ serve.running
  /\ serve' = [serve EXCEPT !.running = FALSE,
                            !.extractionInProgress = FALSE,
                            !.pendingFiles = {}]
  /\ slog' = [outcome |-> "rejected", isChanged |-> FALSE, reloaded |-> FALSE]
  /\ UNCHANGED otherThanServe

\* buildEnd, src/plugin.ts:105-115
buildEndServe ==
  /\ serve.debounceTimer # "null"
  /\ serve' = [serve EXCEPT !.debounceTimer = "null"]
  /\ UNCHANGED slog
  /\ UNCHANGED otherThanServe

NextServe ==
  \/ \E f \in Files : handleHotUpdateServe(f)
  \/ timerFiresServe
  \/ \E isChanged \in BOOLEAN : debouncedExtractServeResume(isChanged)
  \/ debouncedExtractServeThrow
  \/ buildEndServe

\* hotReload is whatever the user configured.
InitServes ==
  /\ InitCoord
  /\ InitCache
  /\ InitWriters
  /\ InitMerge
  /\ InitCompile
  /\ InitPath
  /\ InitConfig
  /\ InitInst
  /\ InitLate
  /\ serve \in {NewServe(hotReload) : hotReload \in BOOLEAN}
  /\ slog = NoRun

SpecServe == InitServes /\ [][NextServe]_vars

\* C29: after a debounced extraction the full-reload message has been sent
\* exactly if the extraction resolved with isChanged = true and hotReload is
\* enabled.
C29_ReloadIffChangedAndHotReload ==
  slog.outcome # "none" =>
    (slog.reloaded <=>
       slog.outcome = "resolved" /\ slog.isChanged /\ serve.hotReload)

C29_Witness ==
  /\ slog.outcome = "resolved"
  /\ slog.isChanged /\ serve.hotReload
  /\ slog.reloaded

\* ======================================================================
\* Further properties of the cached extraction
\* ======================================================================

\* C30: a run of extractMessages in which nothing fails, and which finds no
\* record for outFile or a record of another content, writes outFile, leaves
\* the cache with the record of the new content and reports isChanged = true.
C30_DifferingHashWritesAndRecords ==
  xlog.ran # 0 /\ ~xlog.cacheFault /\ xlog.record \in {"missing", "other"} =>
    /\ xlog.isChanged /\ xlog.wrote
    /\ disk[xlog.ran] = source
    /\ Cardinality(oldCacheFiles(cacheDir, xlog.ran)) = 1
    /\ findCache(cacheDir, xlog.ran, TRUE).hash =
         slice(generateContentHash(source), CachePrefixLen)

C30_Witness ==
  /\ xlog.ran # 0 /\ ~xlog.cacheFault
  /\ xlog.record = "other"
  /\ xlog.isChanged
  /\ disk[xlog.ran] = source

\* C34: findCache returns null, and throws nothing, when the cache
\* directory does not exist; a run of extractMessages that looks the record
\* up in a missing directory goes on as with no record.
C34_MissingCacheDirGivesNoRecord ==
  ~cacheDir.exists =>
    /\ \A o \in OutFiles : findCache(cacheDir, o, TRUE) = NoRecord
    /\ xlog.record # "none" => xlog.record = "missing" /\ ~xlog.threw

C34_Witness ==
  /\ ~cacheDir.exists
  /\ xlog.record = "missing"
  /\ xlog.ran # 0 /\ xlog.isChanged
  /\ disk[xlog.ran] = source

\* C37: cache round trip.  After a run whose writeCache(outFile, h)
\* succeeded, findCache(outFile) returns a record whose hash equals h, the
\* full content hash extractMessages compares with.
C37_CacheRoundTrip ==
  xlog.ran # 0 /\ xlog.wrote /\ ~xlog.cacheFault =>
    findCache(cacheDir, xlog.ran, TRUE).hash = generateContentHash(source)

\* C39: the record of outFile is updated only after outFile was written.
\* A step that puts a record into the cache directory leaves the outFile of
\* that record holding the content the record was computed from, and a run
\* whose write of outFile fails leaves the cache directory as it was.
C39_RecordOnlyAfterWrite ==
  [][/\ \A f \in cacheDir'.files \ cacheDir.files :
          \E o \in OutFiles :
            /\ f.key = getOutFileHash(o)
            /\ disk'[o] # 0
            /\ f.prefix = slice(generateContentHash(disk'[o]), CachePrefixLen)
     /\ xlog'.threw /\ xlog'.faults > xlog.faults => cacheDir' = cacheDir]_vars

C39_Witness ==
  /\ xlog.threw /\ xlog.isChanged /\ ~xlog.wrote
  /\ \E o \in OutFiles :
       /\ disk[o] \notin {0, source}
       /\ findCache(cacheDir, o, TRUE).hash =
            slice(generateContentHash(disk[o]), CachePrefixLen)

\* ======================================================================
\* Further properties of the compilation
\* ======================================================================

\* The entry of inputDir whose basename is that of extract.outFile: with
\* the default configuration outFile is src/i18n/lang/en.json and inputDir
\* is src/i18n/lang.
outFileEntry == CHOOSE l \in Locales : TRUE

\* C31: a batch that succeeds has compiled exactly the .json entries of
\* inputDir whose content parses as JSON and whose basename is not that of
\* the canonical outFile; entries that are not JSON are skipped and raise no
\* error.
C31_CompileAllSkipsOutFile ==
  clog.op = "all" /\ ~clog.threw =>
    clog.wrote = {l \in Locales \ {outFileEntry} :
                    messageFiles[l] \in {"faulty", "good"}}

\* ======================================================================
\* Part X : the source files of the extraction
\* ======================================================================
\* isFileInInclude of core/extract.ts, as plugin.ts calls it with
\* extract.include and extract.ignore.  Paths are those of Part VI; a
\* pattern is a path whose segments may hold "*" (any characters of one
\* segment) and whose segment may be "**" (any number of segments).  No
\* name of the model starts with a dot.

\* process.cwd()
cwd == [abs |-> TRUE, segs |-> << <<"l">> >>]

\* The patterns a configuration may name: l/**/*.ts, **/*.json, lm/** and
\* **/l.*
Globs ==
  { [abs |-> FALSE, segs |-> << <<"l">>, <<"**">>, <<"*", ".ts">> >>],
    [abs |-> FALSE, segs |-> << <<"**">>, <<"*", ".json">> >>],
    [abs |-> FALSE, segs |-> << <<"l", "m">>, <<"**">> >>],
    [abs |-> FALSE, segs |-> << <<"**">>, <<"l", "*">> >>] }

\* path.resolve(process.cwd(), p): an absolute path is kept, a relative one
\* is appended to the working directory; "." segments go.
resolve(p) ==
  [abs |-> TRUE,
   segs |-> SelectSeq(IF p.abs THEN p.segs ELSE cwd.segs \o p.segs, NotDot)]

RECURSIVE matchSegment(_, _)
\* One segment against one pattern segment: "*" stands for any characters.
matchSegment(name, pat) ==
  IF pat = << >> THEN name = << >>
  ELSE IF Head(pat) = "*"
    THEN \E k \in 0..Len(name) :
           matchSegment(SubSeq(name, k + 1, Len(name)), Tail(pat))
  ELSE /\ name # << >>
       /\ Head(name) = Head(pat)
       /\ matchSegment(Tail(name), Tail(pat))

RECURSIVE matchOne(_, _)
\* minimatch's walk over the segments: a "**" at the end swallows what is
\* left, a "**" elsewhere stands for any number of segments, and a pattern
\* with segments left when the path has ended does not match.
matchOne(file, pattern) ==
  IF pattern = << >> THEN file = << >>
  ELSE IF file = << >> THEN FALSE
  ELSE IF Head(pattern) = <<"**">>
    THEN \/ Tail(pattern) = << >>
         \/ \E k \in 0..Len(file) :
              matchOne(SubSeq(file, k + 1, Len(file)), Tail(pattern))
  ELSE /\ matchSegment(Head(file), Head(pattern))
       /\ matchOne(Tail(file), Tail(pattern))

\* minimatch(path, pattern) for two resolved paths
minimatch(p, pattern) == matchOne(p.segs, pattern.segs)

\* Variant: the ignore patterns are not looked at.
isFileInIncludeByPath_NoIgnore(filePath, include, ignoreList) ==
  \E pattern \in include : minimatch(resolve(filePath), resolve(pattern))

\* isFileInInclude(filePath, include, ignore), extract.ts:64-81
isFileInIncludeByPath(filePath, include, ignoreList) ==
  LET relativePath == resolve(filePath)
  IN /\ \E pattern \in include : minimatch(relativePath, resolve(pattern))
     /\ ~ \E pattern \in ignoreList : minimatch(relativePath, resolve(pattern))

\* The host reports a path and handleHotUpdate asks whether it is a source
\* file.
askInclude(filePath) ==
  /\ asked' = [filePath |-> filePath,
               isFileInInclude |->
                 isFileInIncludeByPath(filePath, extractOptions.include,
                                       extractOptions.ignore),
               asked |-> TRUE]
  /\ UNCHANGED extractOptions
  /\ UNCHANGED <<overlapVars, echoVars>>
  /\ UNCHANGED otherThanLate

NextGlob == \E filePath \in FilePaths : askInclude(filePath)

\* The configuration names at least one include pattern (validateConfig)
\* and any ignore patterns.
InitGlobs ==
  /\ InitCoord
  /\ InitCache
  /\ InitWriters
  /\ InitMerge
  /\ InitCompile
  /\ InitPath
  /\ InitConfig
  /\ InitInst
  /\ InitServe
  /\ InitOverlap
  /\ InitEcho
  /\ extractOptions \in [include : SUBSET Globs \ {{}}, ignore : SUBSET Globs]
  /\ asked = NoAnswer

SpecGlob == InitGlobs /\ [][NextGlob]_vars

\* A path matches a glob when their resolved forms match.
Matches(filePath, glob) == minimatch(resolve(filePath), resolve(glob))

\* C32: a path is classified as a source file if and only if it matches at
\* least one include glob and matches no ignore glob.
C32_SourceIffIncludedAndNotIgnored ==
  asked.asked =>
    (asked.isFileInInclude <=>
       /\ \E g \in extractOptions.include : Matches(asked.filePath, g)
       /\ \A g \in extractOptions.ignore : ~Matches(asked.filePath, g))

C32_Witness ==
  /\ asked.asked /\ ~asked.isFileInInclude
  /\ \E g \in extractOptions.include : Matches(asked.filePath, g)
  /\ \E g \in extractOptions.ignore : Matches(asked.filePath, g)

\* ======================================================================
\* Further properties of the configuration
\* ======================================================================

\* The options of a nested object that userConfig gives.
Given(userConfig, key) ==
  IF key \in DOMAIN userConfig THEN DOMAIN userConfig[key] ELSE {}

\* C33: when resolveConfig merges a user configuration into the default
\* one, the nested objects extract and compile are merged option by option
\* (an option the user left out keeps the value the default object holds)
\* and an include array the user gives replaces the default array as a
\* whole.  This is so for every user configuration and every content
\* DEFAULT_CONFIG has when the call is made.
C33_ObjectsMergedArraysReplaced ==
  \A userConfig \in UserConfigs :
    \A key \in {"extract", "compile"} :
      \A option \in DOMAIN Defaults[key] :
        resolveConfig(userConfig)[key][option] =
          IF option \in Given(userConfig, key)
          THEN userConfig[key][option]
          ELSE DEFAULT_CONFIG[key][option]

C33_Witness ==
  /\ rlog.made
  /\ DEFAULT_CONFIG.extract.include = <<"app/**/*.ts">>
  /\ DEFAULT_CONFIG.extract.outFile = Defaults.extract.outFile
  /\ DEFAULT_CONFIG.compile = Defaults.compile

\* ======================================================================
\* Part XI : extractMessage calls in flight together
\* ======================================================================
\* extractMessage awaits extract(), fs.readFile and fs.writeFile in turn
\* (core/extract.ts:100-123); between two awaits other calls run.  Two
\* debouncedExtract activations are in flight together when a change is
\* notified during a run and the timer fires before the run has ended
\* (Part I).

Extractors == 1..MaxInFlight

\* What a step of a call leaves alone.
otherThanOverlap == <<coordVars, cacheVars, writeVars, compileVars, pathVars,
                      configVars, instVars, serveVars, globVars, echoVars>>

\* Call r moves on and holds v.
Proceed(r, v) == extractions' = [extractions EXCEPT ![r] = v]

\* debouncedExtract calls extractMessage(extractFiles, config.extract).
extractMessageCall(r, files) ==
  /\ extractions[r].stage = "idle"
  /\ files # {} /\ files \subseteq globSync
  /\ Proceed(r, [NoExtraction EXCEPT !.stage = "extract", !.files = files])
  /\ UNCHANGED mergeVars
  /\ UNCHANGED otherThanOverlap

\* await extract(files, extractConfig) resolves; readFile is issued.
extractResolves(r) ==
  /\ extractions[r].stage = "extract"
  /\ Proceed(r, [extractions[r] EXCEPT !.stage = "read",
                                       !.messages = extract(extractions[r].files)])
  /\ UNCHANGED mergeVars
  /\ UNCHANGED otherThanOverlap

\* await fs.readFile(outFile) resolves; the merge of what was read and what
\* was extracted is computed and writeFile is issued with it.
readFileResolves(r) ==
  /\ extractions[r].stage = "read"
  /\ canon.exists
  /\ Proceed(r, [extractions[r] EXCEPT
                   !.stage = "write",
                   !.messages = NoMessages,
                   !.merged = mergedMessages(canon.messages,
                                             extractions[r].messages)])
  /\ UNCHANGED mergeVars
  /\ UNCHANGED otherThanOverlap

\* await fs.writeFile(outFile, mergedMessages) resolves.
writeFileResolves(r) ==
  /\ extractions[r].stage = "write"
  /\ canon' = [canon EXCEPT !.messages = extractions[r].merged]
  /\ Proceed(r, NoExtraction)
  /\ UNCHANGED <<srcMsgs, ignore, mlog>>
  /\ UNCHANGED otherThanOverlap

\* One of the awaited calls rejects: nothing more is done.
extractMessageRejects(r) ==
  /\ extractions[r].stage # "idle"
  /\ Proceed(r, NoExtraction)
  /\ UNCHANGED mergeVars
  /\ UNCHANGED otherThanOverlap

NextOverlap ==
  \/ \E r \in Extractors, files \in SUBSET SrcFiles : extractMessageCall(r, files)
  \/ \E r \in Extractors : extractResolves(r)
  \/ \E r \in Extractors : readFileResolves(r)
  \/ \E r \in Extractors : writeFileResolves(r)
  \/ \E r \in Extractors : extractMessageRejects(r)
  \/ \E k \in Keys, v \in Values \cup {0} : SourceChange(k, v)

\* The full extraction at build start has written outFile for sources that
\* define no message yet.
InitOverlaps ==
  /\ InitCoord
  /\ InitCache
  /\ InitWriters
  /\ InitCompile
  /\ InitPath
  /\ InitConfig
  /\ InitInst
  /\ InitServe
  /\ InitGlob
  /\ InitOverlap
  /\ InitEcho
  /\ canon = [exists |-> TRUE, messages |-> NoMessages]
  /\ srcMsgs = NoMessages
  /\ ignore = {}
  /\ mlog = InitMergeLog

SpecOverlap == InitOverlaps /\ [][NextOverlap]_vars

\* C35: no lost update on outFile.  outFile changes through the writes of
\* extraction runs only, so a message outFile holds was written by a
\* completed run; no write of a run, whenever that run read outFile, takes
\* such a message out of outFile.
C35_NoLostUpdate ==
  [][\A k \in Keys :
       canon.messages[k] # 0 => canon'.messages[k] # 0]_vars

\* ======================================================================
\* Part XII : the plugin's own writes reported back
\* ======================================================================
\* handleHotUpdate and debouncedExtract of plugin.ts once more, without the
\* clock, for one plugin whose watcher reports every file the plugin writes.
\* extract.outFile is l/l.json, compile.inputDir is l and compile.outputDir
\* is m; the paths are relative to the working directory.

Rel(dir, name) == [abs |-> FALSE, segs |-> <<dir, name>>]

outFile == Rel(<<"l">>, <<"l", ".json">>)
inputDir == [abs |-> FALSE, segs |-> << <<"l">> >>]
outputDir == [abs |-> FALSE, segs |-> << <<"m">> >>]

\* A source file and a translation file, edited by the user.
EditedPaths == {Rel(<<"l">>, <<"l", ".ts">>), Rel(<<"l">>, <<"m", ".json">>)}

\* path.join(options.outputDir, path.basename(messageFile))
compiledPath(messageFile) ==
  [abs |-> FALSE, segs |-> Append(outputDir.segs, basename(messageFile))]

EchoPaths == EditedPaths \cup {outFile} \cup {compiledPath(p) : p \in EditedPaths \cup {outFile}}

\* What a step of this plugin leaves alone.
otherThanEcho == <<coordVars, cacheVars, writeVars, mergeVars, compileVars,
                   configVars, instVars, serveVars, globVars, overlapVars>>

\* handleHotUpdate(ctx), plugin.ts:108-157, for the path file; the value is
\* what the closure e becomes.  compileOk: whether compileMessageFile
\* writes the artifact.  A compiled file is sent to the client and changes
\* nothing here.
hotUpdate(e, file, compileOk) ==
  IF isMessageFileByPath(file, options) THEN
    \* await compile(file)
    [e EXCEPT !.written = IF compileOk THEN @ \cup {compiledPath(file)} ELSE @]
  ELSE IF isFileInIncludeByPath(file, extractOptions.include,
                                extractOptions.ignore) THEN
    \* clear(); pendingExtract.add(file); timer = setTimeout(...)
    [e EXCEPT !.timer = TRUE, !.inProgress = FALSE, !.pendingExtract = {file}]
  ELSE e

\* The user edits a file and the watcher reports it.
handleHotUpdateEdited(file, compileOk) ==
  /\ ~echo.final
  /\ echo' = hotUpdate(echo, file, compileOk)
  /\ UNCHANGED <<pathVars, globVars, overlapVars>>
  /\ UNCHANGED otherThanEcho

\* The user has made the last edit.
LastEdit ==
  /\ ~echo.final
  /\ echo' = [echo EXCEPT !.final = TRUE]
  /\ UNCHANGED <<pathVars, globVars, overlapVars>>
  /\ UNCHANGED otherThanEcho

\* The watcher reports a file the plugin wrote.
handleHotUpdateWritten(file, compileOk) ==
  /\ file \in echo.written
  /\ echo' = hotUpdate([echo EXCEPT !.written = @ \ {file}], file, compileOk)
  /\ UNCHANGED <<pathVars, globVars, overlapVars>>
  /\ UNCHANGED otherThanEcho

\* The timer fires: debouncedExtract up to its first await, plugin.ts:40-48
timerFiresEcho ==
  /\ echo.timer
  /\ echo.inProgress \/ echo.running < MaxInFlight
  /\ echo' = IF echo.inProgress THEN [echo EXCEPT !.timer = FALSE]
             ELSE [echo EXCEPT !.timer = FALSE, !.inProgress = TRUE,
                               !.running = @ + 1]
  /\ UNCHANGED <<pathVars, globVars, overlapVars>>
  /\ UNCHANGED otherThanEcho

\* A run ends, plugin.ts:48-58: extractMessage wrote outFile or rejected,
\* compileMessageFile(outFile) wrote the artifact or failed, then the
\* finally-block.
debouncedExtractEnds(extractOk, compileOk) ==
  /\ echo.running > 0
  /\ echo' = [echo EXCEPT
                !.running = @ - 1,
                !.inProgress = FALSE,
                !.pendingExtract = {},
                !.written = @ \cup (IF extractOk THEN {outFile} ELSE {})
                              \cup (IF extractOk /\ compileOk
                                    THEN {compiledPath(outFile)} ELSE {})]
  /\ UNCHANGED <<pathVars, globVars, overlapVars>>
  /\ UNCHANGED otherThanEcho

NextEcho ==
  \/ \E file \in EditedPaths, compileOk \in BOOLEAN :
       handleHotUpdateEdited(file, compileOk)
  \/ LastEdit
  \/ \E file \in EchoPaths, compileOk \in BOOLEAN :
       handleHotUpdateWritten(file, compileOk)
  \/ timerFiresEcho
  \/ \E extractOk, compileOk \in BOOLEAN : debouncedExtractEnds(extractOk, compileOk)

\* The configuration names one include pattern and at most one ignore
\* pattern.
InitEchoes ==
  /\ InitCoord
  /\ InitCache
  /\ InitWriters
  /\ InitMerge
  /\ InitCompile
  /\ InitConfig
  /\ InitInst
  /\ InitServe
  /\ InitOverlap
  /\ InitEcho
  /\ options = [outFile |-> outFile, inputDir |-> inputDir]
  /\ probe = NoProbe
  /\ extractOptions \in [include : {{g} : g \in Globs},
                         ignore : {{}} \cup {{g} : g \in Globs}]
  /\ asked = NoAnswer

SpecEcho == InitEchoes /\ [][NextEcho]_vars

\* The host fires an armed timer, the awaited calls of a run end, and the
\* watcher reports a written file.
FairEcho ==
  /\ WF_vars(timerFiresEcho)
  /\ WF_vars(\E extractOk, compileOk \in BOOLEAN :
               debouncedExtractEnds(extractOk, compileOk))
  /\ WF_vars(\E file \in EchoPaths, compileOk \in BOOLEAN :
               handleHotUpdateWritten(file, compileOk))

SpecEchoFair == SpecEcho /\ FairEcho

\* No timer is scheduled, no run is in flight, the pending set is empty and
\* every write was reported.
Quiescent ==
  /\ ~echo.timer
  /\ echo.running = 0
  /\ echo.pendingExtract = {}
  /\ echo.written = {}

\* C36: when every file the plugin writes is reported back through
\* handleHotUpdate, then after the user's last edit the plugin reaches a
\* state with no timer scheduled, no run in flight, an empty pending set
\* and no write left to report.
C36_OwnWritesDoNotFeedBack == echo.final ~> Quiescent

\* ======================================================================
\* Further properties of the hooks
\* ======================================================================

\* C38: when the full extraction of a buildStart call rejects, the full
\* compilation of that call is still started.
C38_FailedExtractionStillCompiles ==
  [][\A t \in BuildRuns(tasks, "extract") :
       buildStartThrow(t) => BuildRuns(tasks', "compile") # {}]_vars
====
